---- MODULE Spec2Model ----
(***************************************************************************)
(* Vaccine due-window classification, family classification, per-animal    *)
(* reconciliation and per-family rollup of the Shelterluv -> Slack scripts. *)
(*                                                                         *)
(* Time.  scheduled_for / completed_at are strings holding seconds since   *)
(* the epoch.  A Date is represented by getTime() / 1000 (whole seconds),   *)
(* and the wall clock is read in the same unit.  diffDays is the rational   *)
(* diff / SecPerDay and is carried as its numerator `diff` (seconds), so    *)
(* diffDays <= 14 is diff <= 14 * SecPerDay, exactly.                       *)
(***************************************************************************)
EXTENDS Integers, Sequences, FiniteSets, TLC

VARIABLES
  clock,              \* what `new Date()` returns when it is read (seconds)
  schedStr,           \* SpecClassify: the scheduledForStr handed to classifyByDueWindow
  classified,         \* SpecClassify: what classifyByDueWindow returned, with the clock it read
  productIn,          \* SpecFamily: the product handed to classifyVaccineType
  familyOut,          \* SpecFamily: what classifyVaccineType returned
  pc,                 \* where main() stands
  scheduledVaccines,  \* checkVaccines.js main: what fetchAllScheduledVaccines returned (feed a)
  buckets,            \* checkVaccines.js main: the org-wide buckets
  animalsById,        \* checkVaccines.js main: the ids fetchAnimalsForBuckets kept
  dogsById,           \* the dog objects, by animal id
  dogQueue,           \* the dogs the running loop of main() has still to visit, in order
  seedDogs,           \* history: dogsById as groupVaccinesByDog returned it
  fetchedB,           \* history: per enriched dog, what its per-animal fetch returned (feed b)
  allVaccines,        \* part_000 main: what fetchAllVaccinesForAnimal returned for the dog at hand
  posted,             \* the payloads posted to Slack so far
  offset,             \* fetchAllScheduledVaccines: the offset of the page asked for
  all,                \* fetchAllScheduledVaccines: the records gathered so far
  json,               \* fetchAllScheduledVaccines: the body of the response at hand
  requested,          \* history: the offsets of the requests sent, in order
  received            \* history: the bodies of the responses received, in order

classifierVars == <<schedStr, classified, productIn, familyOut>>
mainVars == <<pc, scheduledVaccines, buckets, animalsById, dogsById, dogQueue, seedDogs,
              fetchedB, allVaccines, posted>>
pagerVars == <<offset, all, json, requested, received>>
vars == <<clock, schedStr, classified, productIn, familyOut, pc, scheduledVaccines, buckets,
          animalsById, dogsById, dogQueue, seedDogs, fetchedB, allVaccines, posted,
          offset, all, json, requested, received>>

----------------------------------------------------------------------------
(* Program constants *)

DAYS_BEFORE_DUE == 30
TWO_WEEKS_BEFORE_DUE == 14
\* const limit = 200, the page size fetchAllScheduledVaccines asks for
limit == 200

\* 1000 * 60 * 60 * 24 ms, in seconds
SecPerDay == 60 * 60 * 24

----------------------------------------------------------------------------
(* Bounds of the model *)

\* scheduled-for instants range over Now0 +/- MaxDayOffset days ...
MaxDayOffset == 32
\* ... each with 0..MaxSkew seconds before and after the exact day boundary
MaxSkew == 1
\* the clock advances at most MaxTicks seconds during one run
MaxTicks == 2
\* record identifiers are 1..NumIds
NumIds == 2
\* the server answers at most MaxPages requests of one fetchAllScheduledVaccines
MaxPages == 3
\* the org-wide feed (a) holds at most MaxFeedA records
MaxFeedA == 2
\* a per-animal feed (b) holds at most MaxFeedB records
MaxFeedB == 2
\* a product name is made of at most MaxChunks fragments
MaxChunks == 2

\* the instant the run starts at (500 days after the epoch)
Now0 == 500 * SecPerDay

----------------------------------------------------------------------------
(* JavaScript values *)

\* A raw timestamp field of the API: absent (undefined / null), or a string:
\* "" (empty), text that is no numeral ("abc": Number gives NaN), a numeral
\* that is not finite ("Infinity"), a numeral beyond the range of Date
\* (|seconds * 1000| > 8.64e15), or a numeral n of seconds Date can hold.
StrAbsent == [k |-> "absent", n |-> 0]
StrEmpty == [k |-> "empty", n |-> 0]
StrText == [k |-> "text", n |-> 0]
StrInfinity == [k |-> "infinity", n |-> 0]
StrHuge == [k |-> "huge", n |-> 0]
StrNum(n) == [k |-> "num", n |-> n]

\* A Date or null: null, Invalid Date (getTime() is NaN), or the instant t.
DateNull == [k |-> "null", t |-> 0]
DateInvalid == [k |-> "invalid", t |-> 0]
DateAt(t) == [k |-> "date", t |-> t]

\* A number or null: null, NaN, +Infinity, or the finite value v.
NumNull == [k |-> "null", v |-> 0]
NumNaN == [k |-> "NaN", v |-> 0]
NumInf == [k |-> "inf", v |-> 0]
Num(v) == [k |-> "num", v |-> v]

\* a < b on numbers: false as soon as one side is NaN
NumLess(a, b) ==
  CASE a.k = "NaN" \/ b.k = "NaN" -> FALSE
    [] a.k = "inf" -> FALSE
    [] b.k = "inf" -> TRUE
    [] OTHER -> a.v < b.v

\* a <= b on numbers
NumLeq(a, b) ==
  CASE a.k = "NaN" \/ b.k = "NaN" -> FALSE
    [] b.k = "inf" -> TRUE
    [] a.k = "inf" -> FALSE
    [] OTHER -> a.v <= b.v

\* date.getTime()
getTime(d) == IF d.k = "date" THEN Num(d.t) ELSE NumNaN

----------------------------------------------------------------------------
(* unixStringToDate *)

unixStringToDate_NoFiniteCheck(str) ==
  CASE str.k \in {"absent", "empty"} -> DateNull
    [] str.k = "num" -> DateAt(str.n)
    [] OTHER -> DateInvalid

unixStringToDate(str) ==
  IF str.k \in {"absent", "empty"} THEN DateNull             \* if (!str) return null
  ELSE IF str.k \in {"text", "infinity"} THEN DateNull       \* !Number.isFinite(seconds)
  ELSE IF str.k = "huge" THEN DateInvalid                    \* new Date(out of range)
  ELSE DateAt(str.n)                                         \* new Date(seconds * 1000)

----------------------------------------------------------------------------
(* classifyByDueWindow: `now` is the clock at the moment of the call *)

classifyByDueWindow_StrictTwoWeeks(scheduledForStr, now) ==
  LET date == unixStringToDate(scheduledForStr)
      diffDays == IF date.k = "date" THEN Num(date.t - now) ELSE NumNaN
  IN  IF date.k = "null" THEN [status |-> "unknown", diffDays |-> NumNull, date |-> DateNull]
      ELSE IF NumLess(diffDays, Num(0))
        THEN [status |-> "overdue", diffDays |-> diffDays, date |-> date]
      ELSE IF NumLess(diffDays, Num(TWO_WEEKS_BEFORE_DUE * SecPerDay))
        THEN [status |-> "needsAttention", diffDays |-> diffDays, date |-> date]
      ELSE IF NumLeq(diffDays, Num(DAYS_BEFORE_DUE * SecPerDay))
        THEN [status |-> "upcoming", diffDays |-> diffDays, date |-> date]
      ELSE [status |-> "current", diffDays |-> diffDays, date |-> date]

classifyByDueWindow(scheduledForStr, now) ==
  LET date == unixStringToDate(scheduledForStr)
      \* diffMs / (1000 * 60 * 60 * 24), kept as its numerator in seconds
      diffDays == IF date.k = "date" THEN Num(date.t - now) ELSE NumNaN
  IN  IF date.k = "null" THEN [status |-> "unknown", diffDays |-> NumNull, date |-> DateNull]
      ELSE IF NumLess(diffDays, Num(0))
        THEN [status |-> "overdue", diffDays |-> diffDays, date |-> date]
      ELSE IF NumLeq(diffDays, Num(TWO_WEEKS_BEFORE_DUE * SecPerDay))
        THEN [status |-> "needsAttention", diffDays |-> diffDays, date |-> date]
      ELSE IF NumLeq(diffDays, Num(DAYS_BEFORE_DUE * SecPerDay))
              /\ NumLess(Num(TWO_WEEKS_BEFORE_DUE * SecPerDay), diffDays)
        THEN [status |-> "upcoming", diffDays |-> diffDays, date |-> date]
      ELSE [status |-> "current", diffDays |-> diffDays, date |-> date]

----------------------------------------------------------------------------
(* Product names.  A product is absent (null / undefined) or a string; a     *)
(* string is written as the fragments it is made of, and its text is the     *)
(* characters of the fragments, in order.                                    *)

ChunkNames ==
  {"Rabies", "RABVAC", "DHPP", "DAPPv", "Da2PP", "Bordetella", "TruCanB",
   "Vanguard", "Heartworm", "Three", "Slash"}

ChunkText(c) ==
  CASE c = "Rabies" -> <<"R", "a", "b", "i", "e", "s">>
    [] c = "RABVAC" -> <<"R", "A", "B", "V", "A", "C">>
    [] c = "DHPP" -> <<"D", "H", "P", "P">>
    [] c = "DAPPv" -> <<"D", "A", "P", "P", "v">>
    [] c = "Da2PP" -> <<"D", "a", "2", "P", "P">>
    [] c = "Bordetella" -> <<"B", "o", "r", "d", "e", "t", "e", "l", "l", "a">>
    [] c = "TruCanB" -> <<"T", "r", "u", "C", "a", "n", " ", "B">>
    [] c = "Vanguard" -> <<"V", "a", "n", "g", "u", "a", "r", "d", " ">>
    [] c = "Heartworm" -> <<"H", "e", "a", "r", "t", "w", "o", "r", "m">>
    [] c = "Three" -> <<" ", "3", " ">>
    [] c = "Slash" -> <<"/">>

\* the family whose keyword the fragment spells; "other" when it spells none
ChunkFamily(c) ==
  CASE c \in {"Rabies", "RABVAC"} -> "rabies"
    [] c \in {"DHPP", "DAPPv", "Da2PP"} -> "dhpp_dapp"
    [] c \in {"Bordetella", "TruCanB"} -> "bordetella"
    [] OTHER -> "other"

ProductAbsent == [k |-> "absent", s |-> <<>>]
ProductStr(chunks) == [k |-> "str", s |-> chunks]

RECURSIVE Text(_)
Text(chunks) ==
  IF chunks = <<>> THEN <<>> ELSE ChunkText(Head(chunks)) \o Text(Tail(chunks))

\* String.prototype.toLowerCase, on the letters the fragments use
LowerChar(c) ==
  CASE c = "A" -> "a"
    [] c = "B" -> "b"
    [] c = "C" -> "c"
    [] c = "D" -> "d"
    [] c = "H" -> "h"
    [] c = "P" -> "p"
    [] c = "R" -> "r"
    [] c = "T" -> "t"
    [] c = "V" -> "v"
    [] OTHER -> c

toLowerCase(text) == [i \in 1..Len(text) |-> LowerChar(text[i])]

\* String.prototype.includes
includes(text, word) ==
  \E i \in 0..(Len(text) - Len(word)) :
    \A j \in 1..Len(word) : text[i + j] = word[j]

Kw_rabies == <<"r", "a", "b", "i", "e", "s">>
Kw_rabvac == <<"r", "a", "b", "v", "a", "c">>
Kw_dhpp == <<"d", "h", "p", "p">>
Kw_dapp == <<"d", "a", "p", "p">>
Kw_da2pp == <<"d", "a", "2", "p", "p">>
Kw_da2ppv == <<"d", "a", "2", "p", "p", "v">>
Kw_dappv == <<"d", "a", "p", "p", "v">>
Kw_vanguard_dapp ==
  <<"v", "a", "n", "g", "u", "a", "r", "d", " ", "d", "a", "p", "p">>
Kw_nobivac_canine_1_dappv ==
  <<"n", "o", "b", "i", "v", "a", "c", " ", "c", "a", "n", "i", "n", "e", " ",
    "1", "-", "d", "a", "p", "p", "v">>
Kw_bordetella == <<"b", "o", "r", "d", "e", "t", "e", "l", "l", "a">>
Kw_trucan_b == <<"t", "r", "u", "c", "a", "n", " ", "b">>

----------------------------------------------------------------------------
(* classifyVaccineType *)

\* the bordetella test made before the rabies test
classifyVaccineType_BordetellaFirst(product) ==
  LET p == toLowerCase(IF product.k = "absent" THEN <<>> ELSE Text(product.s))
  IN  IF includes(p, Kw_bordetella) \/ includes(p, Kw_trucan_b) THEN "bordetella"
      ELSE IF includes(p, Kw_rabies) \/ includes(p, Kw_rabvac) THEN "rabies"
      ELSE IF \/ includes(p, Kw_dhpp) \/ includes(p, Kw_dapp) \/ includes(p, Kw_da2pp)
              \/ includes(p, Kw_da2ppv) \/ includes(p, Kw_dappv)
              \/ includes(p, Kw_vanguard_dapp) \/ includes(p, Kw_nobivac_canine_1_dappv)
        THEN "dhpp_dapp"
      ELSE "other"

classifyVaccineType(product) ==
  \* (product || '').toLowerCase()
  LET p == toLowerCase(IF product.k = "absent" THEN <<>> ELSE Text(product.s))
  IN  IF includes(p, Kw_rabies) \/ includes(p, Kw_rabvac) THEN "rabies"
      ELSE IF \/ includes(p, Kw_dhpp) \/ includes(p, Kw_dapp) \/ includes(p, Kw_da2pp)
              \/ includes(p, Kw_da2ppv) \/ includes(p, Kw_dappv)
              \/ includes(p, Kw_vanguard_dapp) \/ includes(p, Kw_nobivac_canine_1_dappv)
        THEN "dhpp_dapp"
      ELSE IF includes(p, Kw_bordetella) \/ includes(p, Kw_trucan_b) THEN "bordetella"
      ELSE "other"

----------------------------------------------------------------------------
(* Vaccine records *)

\* A raw record of the API.  manufacturer is carried exactly as lot is.
RawRecord(id, animal_id, product, lot, scheduled_for, completed_at) ==
  [id |-> id, animal_id |-> animal_id, product |-> product, lot |-> lot,
   scheduled_for |-> scheduled_for, completed_at |-> completed_at]

\* id / animal_id of a record that has none (undefined: falsy, and one value of a Set)
NoId == 0

\* An element of a feed that is no object: null.  Reading a property of it (v.id,
\* v.scheduled_for) throws a TypeError.
NullElement == [isNull |-> TRUE]

\* the elements of q that come before its first null, all of q when it has none
beforeNull(q) ==
  LET nulls == {i \in 1..Len(q) : q[i] = NullElement}
  IN  IF nulls = {} THEN q
      ELSE SubSeq(q, 1, (CHOOSE i \in nulls : \A j \in nulls : i <= j) - 1)

BucketNames == {"overdue", "needsAttention", "upcoming", "current", "unknown"}
CoreTypes == <<"rabies", "dhpp_dapp", "bordetella">>

EmptyBuckets == [b \in BucketNames |-> <<>>]

\* the if / else if chain on status, whose last else is the unknown bucket
BucketFor(status) ==
  IF status \in {"overdue", "needsAttention", "upcoming", "current"} THEN status
  ELSE "unknown"

\* base / normalized: the canonical record built from raw record v at clock reading now
normalize(v, now) ==
  LET c == classifyByDueWindow(v.scheduled_for, now)
  IN  [vaccineId |-> v.id, animalId |-> v.animal_id, product |-> v.product, lot |-> v.lot,
       scheduledFor |-> c.date, diffDays |-> c.diffDays, status |-> c.status]

RECURSIVE bucketScheduledVaccinesFrom(_, _, _)
bucketScheduledVaccinesFrom(acc, vaccines, now) ==
  IF vaccines = <<>> THEN acc
  ELSE LET base == normalize(Head(vaccines), now)
       IN  bucketScheduledVaccinesFrom(
             [acc EXCEPT ![BucketFor(base.status)] = Append(@, base)], Tail(vaccines), now)

\* bucketScheduledVaccines, every call of classifyByDueWindow reading the clock as now
bucketScheduledVaccines(vaccines, now) ==
  bucketScheduledVaccinesFrom(EmptyBuckets, vaccines, now)

\* [...b.overdue, ...b.needsAttention, ...b.upcoming, ...b.current, ...(b.unknown || [])]
allOf(b) == b.overdue \o b.needsAttention \o b.upcoming \o b.current \o b.unknown

SeqToSet(q) == {q[i] : i \in 1..Len(q)}

----------------------------------------------------------------------------
(* fetchAnimalsForBuckets and groupVaccinesByDog (checkVaccines.js) *)

\* the animal ids of the overdue, needsAttention, upcoming and current buckets
idsOfBuckets(b) ==
  {v.animalId : v \in SeqToSet(b.overdue \o b.needsAttention \o b.upcoming \o b.current)}
    \ {NoId}

\* What GET /animals/{id} answers: a failure, or an animal with a Type and a Status.
AnimalAnswers == {"error", "cat", "dogAdopted", "dogAvailable"}

\* animal.Type === 'Dog', and Status holds 'available' or 'adoptable'
keepsAnimal(answer) == answer = "dogAvailable"

\* animalsById, as the set of its keys (name and photoUrl are not modelled)
fetchAnimalsForBuckets(b, answers) == {id \in idsOfBuckets(b) : keepsAnimal(answers[id])}

\* addToDogBucket without `if (!animalsById[id]) return`
groupVaccinesByDog_NoLookup(b, byId) ==
  LET kept(v) == v.animalId /= NoId
      ids == {v.animalId : v \in {w \in SeqToSet(allOf(b)) : kept(w)}}
  IN  [id \in ids |->
        [name \in BucketNames |-> SelectSeq(b[name], LAMBDA v : v.animalId = id)]]

groupVaccinesByDog(b, byId) ==
  LET kept(v) == v.animalId /= NoId /\ v.animalId \in byId
      ids == {v.animalId : v \in {w \in SeqToSet(allOf(b)) : kept(w)}}
  IN  [id \in ids |->
        [name \in BucketNames |-> SelectSeq(b[name], LAMBDA v : v.animalId = id)]]

RECURSIVE Ascending(_)
\* Object.values(dogsById): integer-like keys come in ascending order
Ascending(S) ==
  IF S = {} THEN <<>>
  ELSE LET m == CHOOSE x \in S : \A y \in S : x <= y
       IN  <<m>> \o Ascending(S \ {m})

----------------------------------------------------------------------------
(* The per-animal enrichment loop of main (checkVaccines.js) *)

idsOfDog(dog) == {v.vaccineId : v \in SeqToSet(allOf(dog))}

\* the loop body without `if (knownIds.has(v.id)) continue`
mergeStep_NoKnownCheck(dog, knownIds, v, now) ==
  LET normalized == normalize(v, now)
  IN  [dog EXCEPT ![BucketFor(normalized.status)] = Append(@, normalized)]

\* the loop body replacing the record already held under v.id by the newcomer
mergeStep_Overwrite(dog, knownIds, v, now) ==
  LET normalized == normalize(v, now)
      without == [name \in BucketNames |->
                    SelectSeq(dog[name], LAMBDA w : w.vaccineId /= v.id)]
  IN  [without EXCEPT ![BucketFor(normalized.status)] = Append(@, normalized)]

\* the loop body whose final else (the unknown bucket) is missing
mergeStep_NoUnknown(dog, knownIds, v, now) ==
  LET normalized == normalize(v, now)
  IN  IF v.id \in knownIds \/ normalized.status = "unknown" THEN dog
      ELSE [dog EXCEPT ![BucketFor(normalized.status)] = Append(@, normalized)]

\* one turn of `for (const v of perAnimalVaccines)`: the dog after it
mergeStep(dog, knownIds, v, now) ==
  IF v.id \in knownIds THEN dog                                   \* continue
  ELSE LET normalized == normalize(v, now)
       IN  [dog EXCEPT ![BucketFor(normalized.status)] = Append(@, normalized)]

RECURSIVE mergeLoop(_, _, _, _)
mergeLoop(dog, knownIds, perAnimalVaccines, now) ==
  IF perAnimalVaccines = <<>> THEN dog
  ELSE LET v == Head(perAnimalVaccines)
       IN  mergeLoop(mergeStep(dog, knownIds, v, now), knownIds \cup {v.id},
                     Tail(perAnimalVaccines), now)

\* knownIds = the ids of the dog's buckets, then the loop over perAnimalVaccines
mergePerAnimal(dog, perAnimalVaccines, now) ==
  mergeLoop(dog, idsOfDog(dog), perAnimalVaccines, now)

----------------------------------------------------------------------------
(* buildSlackPayloadForDog: the three core families *)

\* the value held where no record was chosen
NoRecord ==
  [vaccineId |-> NoId, animalId |-> NoId, product |-> ProductAbsent, lot |-> "",
   scheduledFor |-> DateNull, diffDays |-> NumNull, status |-> "none"]

\* a.scheduledFor ? a.scheduledFor.getTime() : Infinity   (every Date object is truthy)
timeOrInfinity(v) ==
  IF v.scheduledFor.k = "null" THEN NumInf ELSE getTime(v.scheduledFor)

\* the reduce callback: (a, b) => bt < at ? b : a
soonestOfTwo(a, b) ==
  IF NumLess(timeOrInfinity(b), timeOrInfinity(a)) THEN b ELSE a

RECURSIVE reduceSoonest(_, _)
reduceSoonest(a, rest) ==
  IF rest = <<>> THEN a ELSE reduceSoonest(soonestOfTwo(a, Head(rest)), Tail(rest))

\* list.reduce(callback) on a non-empty list: the first element is the first accumulator
soonestOf(list) == reduceSoonest(Head(list), Tail(list))

\* the filter letting every record through, whatever its family
forType_AnyFamily(list, key) == list

forType(list, key) == SelectSeq(list, LAMBDA v : classifyVaccineType(v.product) = key)

\* the day count rounded down whatever the status
dayCount_Floor(v) ==
  IF v.diffDays.k = "null" THEN NumNull
  ELSE IF v.diffDays.k /= "num" THEN NumNaN
  ELSE IF v.diffDays.v < 0 THEN Num((0 - v.diffDays.v) \div SecPerDay)
  ELSE Num(v.diffDays.v \div SecPerDay)

\* Math.floor(Math.abs(diffDays)) for overdue, Math.ceil(diffDays) otherwise; null when
\* diffDays is null
dayCount(v) ==
  IF v.diffDays.k = "null" THEN NumNull
  ELSE IF v.diffDays.k /= "num" THEN NumNaN
  ELSE IF v.status = "overdue"
    THEN Num((IF v.diffDays.v < 0 THEN 0 - v.diffDays.v ELSE v.diffDays.v) \div SecPerDay)
  ELSE Num(0 - ((0 - v.diffDays.v) \div SecPerDay))

\* the if / else if chain on soonest.status, whose last else is 'unknown'
statusKeyOf(soonest) ==
  IF soonest.status \in {"overdue", "needsAttention", "upcoming", "current"}
  THEN soonest.status ELSE "unknown"

\* checkVaccines.js: one turn of coreTypes.forEach, on the dog's buckets alone
coreRollup(dog, key) ==
  LET vaccinesForType == forType(allOf(dog), key)
  IN  IF Len(vaccinesForType) > 0
      THEN LET soonest == soonestOf(vaccinesForType)
           IN  [statusKey |-> statusKeyOf(soonest), soonest |-> soonest,
                days |-> dayCount(soonest), lastGiven |-> DateNull]
      ELSE [statusKey |-> "none", soonest |-> NoRecord, days |-> NumNull,
            lastGiven |-> DateNull]

\* the completed dates of the history, invalid and missing ones filtered out
completedDatesOf(history) ==
  {d \in {IF v.completed_at.k \in {"absent", "empty"} THEN DateNull
          ELSE unixStringToDate(v.completed_at) : v \in SeqToSet(history)} :
     d.k = "date"}

\* the sort made oldest first
lastGivenOf_Oldest(history) ==
  LET completedDates == completedDatesOf(history)
  IN  IF completedDates = {} THEN DateNull
      ELSE CHOOSE d \in completedDates : \A e \in completedDates : d.t <= e.t

\* completedDates.sort(newest first)[0], null when there is none
lastGivenOf(history) ==
  LET completedDates == completedDatesOf(history)
  IN  IF completedDates = {} THEN DateNull
      ELSE CHOOSE d \in completedDates : \A e \in completedDates : e.t <= d.t

\* the rollup whose `else if (historyForType.length > 0)` branch is missing
coreRollupWithHistory_NoHistoryFallback(dog, history, key) ==
  LET historyForType == forType(history, key)
      scheduledForType == forType(allOf(dog), key)
      lastGiven == IF Len(historyForType) > 0 THEN lastGivenOf(historyForType) ELSE DateNull
  IN  IF Len(scheduledForType) > 0
      THEN LET soonest == soonestOf(scheduledForType)
           IN  [statusKey |-> statusKeyOf(soonest), soonest |-> soonest,
                days |-> dayCount(soonest), lastGiven |-> lastGiven]
      ELSE [statusKey |-> "none", soonest |-> NoRecord, days |-> NumNull,
            lastGiven |-> lastGiven]

\* part_000: one turn of coreTypes.forEach, on the dog's buckets and its full history
coreRollupWithHistory(dog, history, key) ==
  LET historyForType == forType(history, key)
      scheduledForType == forType(allOf(dog), key)
      lastGiven == IF Len(historyForType) > 0 THEN lastGivenOf(historyForType) ELSE DateNull
  IN  IF Len(scheduledForType) > 0
      THEN LET soonest == soonestOf(scheduledForType)
           IN  [statusKey |-> statusKeyOf(soonest), soonest |-> soonest,
                days |-> dayCount(soonest), lastGiven |-> lastGiven]
      ELSE IF Len(historyForType) > 0
      THEN [statusKey |-> "current", soonest |-> NoRecord, days |-> NumNull,
            lastGiven |-> lastGiven]
      ELSE [statusKey |-> "none", soonest |-> NoRecord, days |-> NumNull,
            lastGiven |-> lastGiven]

CoreKeys == {CoreTypes[i] : i \in 1..Len(CoreTypes)}

buildSlackPayloadForDog(id, dog) ==
  [animalId |-> id, core |-> [key \in CoreKeys |-> coreRollup(dog, key)]]

buildSlackPayloadForDogWithHistory(id, dog, history) ==
  [animalId |-> id, core |-> [key \in CoreKeys |-> coreRollupWithHistory(dog, history, key)]]

----------------------------------------------------------------------------
(* The inputs of the two classifiers *)

RECURSIVE SeqsUpTo(_, _)
\* the sequences over S of length at most n
SeqsUpTo(S, n) ==
  IF n = 0 THEN {<<>>}
  ELSE LET shorter == SeqsUpTo(S, n - 1)
       IN  shorter \cup {Append(q, x) : q \in shorter, x \in S}

SchedInstants ==
  {Now0 + d * SecPerDay + e : d \in (0 - MaxDayOffset)..MaxDayOffset,
                              e \in (0 - MaxSkew)..MaxSkew}

SchedStrs ==
  {StrAbsent, StrEmpty, StrText, StrInfinity, StrHuge} \cup {StrNum(n) : n \in SchedInstants}

Products == {ProductAbsent} \cup {ProductStr(q) : q \in SeqsUpTo(ChunkNames, MaxChunks)}

\* classifyByDueWindow was not called
NotClassified ==
  [called |-> FALSE, now |-> 0,
   out |-> [status |-> "", diffDays |-> NumNull, date |-> DateNull]]

\* no dog object
NoDogs == <<>>

\* main() is not running
MainIdle ==
  /\ pc = "idle"
  /\ scheduledVaccines = <<>>
  /\ buckets = EmptyBuckets
  /\ animalsById = {}
  /\ dogsById = NoDogs
  /\ dogQueue = <<>>
  /\ seedDogs = NoDogs
  /\ fetchedB = <<>>
  /\ allVaccines = <<>>
  /\ posted = <<>>

\* no response body at hand
NoJson == [shape |-> "none", vaccines |-> <<>>, has_more |-> "absent"]

\* fetchAllScheduledVaccines is not running
PagerIdle ==
  /\ offset = 0
  /\ all = <<>>
  /\ json = NoJson
  /\ requested = <<>>
  /\ received = <<>>

\* the classifiers are not probed
ClassifierIdle ==
  /\ schedStr = StrAbsent
  /\ classified = NotClassified
  /\ productIn = ProductAbsent
  /\ familyOut = ""


----------------------------------------------------------------------------
(* SpecClassify: classifyByDueWindow called on any scheduled-for string, at  *)
(* any reading of the clock.                                                 *)

InitClassify ==
  /\ clock = Now0
  /\ schedStr \in SchedStrs
  /\ classified = NotClassified
  /\ productIn = ProductAbsent
  /\ familyOut = ""
  /\ MainIdle
  /\ PagerIdle

\* time passes
ClockTick ==
  /\ clock < Now0 + MaxTicks
  /\ clock' = clock + 1
  /\ UNCHANGED <<pagerVars, classifierVars, mainVars>>

CallClassifyByDueWindow ==
  /\ classified' = [called |-> TRUE, now |-> clock,
                    out |-> classifyByDueWindow(schedStr, clock)]
  /\ UNCHANGED <<pagerVars, clock, schedStr, productIn, familyOut, mainVars>>

NextClassify == ClockTick \/ CallClassifyByDueWindow

SpecClassify == InitClassify /\ [][NextClassify]_vars

----------------------------------------------------------------------------
(* SpecFamily: classifyVaccineType called on any product. *)

InitFamily ==
  /\ clock = Now0
  /\ schedStr = StrAbsent
  /\ classified = NotClassified
  /\ productIn \in Products
  /\ familyOut = ""
  /\ MainIdle
  /\ PagerIdle

CallClassifyVaccineType ==
  /\ familyOut = ""
  /\ familyOut' = classifyVaccineType(productIn)
  /\ UNCHANGED <<pagerVars, clock, schedStr, classified, productIn, mainVars>>

NextFamily == CallClassifyVaccineType

SpecFamily == InitFamily /\ [][NextFamily]_vars

----------------------------------------------------------------------------
(* Claims on the two classifiers *)

\* C1: for a parseable scheduled-for at signed offset d from now,
\* classifyByDueWindow returns overdue when d < 0, needsAttention when
\* 0 <= d <= 14 days, upcoming when 14 < d <= 30 days, current when d > 30
\* days, and reports d as diffDays.
C1_DueWindowThresholds ==
  (classified.called /\ schedStr.k = "num") =>
    LET d == schedStr.n - classified.now
    IN  /\ classified.out.diffDays = Num(d)
        /\ classified.out.status =
             IF d < 0 THEN "overdue"
             ELSE IF d <= 14 * SecPerDay THEN "needsAttention"
             ELSE IF d <= 30 * SecPerDay THEN "upcoming"
             ELSE "current"

\* a record due in exactly 14.0 days was classified, as needsAttention
C1_Witness ==
  /\ classified.called
  /\ schedStr.k = "num"
  /\ schedStr.n - classified.now = 14 * SecPerDay
  /\ classified.out.status = "needsAttention"

\* C2: the status is unknown iff the scheduled-for is missing, empty or not a
\* finite number, and diffDays and the resolved date are null exactly when
\* the status is unknown.
C2_UnknownIffUnparseable ==
  classified.called =>
    /\ (classified.out.status = "unknown")
         <=> (schedStr.k \in {"absent", "empty", "text", "infinity"})
    /\ (classified.out.diffDays = NumNull) <=> (classified.out.status = "unknown")
    /\ (classified.out.date = DateNull) <=> (classified.out.status = "unknown")

\* a non-numeric scheduled-for was classified as unknown
C2_Witness ==
  /\ classified.called
  /\ schedStr.k = "text"
  /\ classified.out.status = "unknown"
  /\ classified.out.diffDays = NumNull

\* the families spelled by the fragments of the classified product
ProductTags ==
  IF productIn.k = "absent" THEN {}
  ELSE {ChunkFamily(productIn.s[i]) : i \in 1..Len(productIn.s)}

\* C3: classifyVaccineType returns the highest-priority family (rabies, then
\* dhpp_dapp, then bordetella) among those whose keyword the product name
\* holds, whatever the letter case, and other when it holds none or is
\* null or empty.
C3_FamilyPriority ==
  (familyOut /= "") =>
    familyOut = IF "rabies" \in ProductTags THEN "rabies"
                ELSE IF "dhpp_dapp" \in ProductTags THEN "dhpp_dapp"
                ELSE IF "bordetella" \in ProductTags THEN "bordetella"
                ELSE "other"

\* "Bordetella" followed by "RABVAC" was classified, as rabies
C3_Witness ==
  /\ productIn = ProductStr(<<"Bordetella", "RABVAC">>)
  /\ familyOut = "rabies"

----------------------------------------------------------------------------
(* Spec: main() of scripts/checkVaccines.js.  The org-wide feed (a) is        *)
(* bucketed and grouped by dog, then every dog is enriched with its           *)
(* per-animal feed (b), then one message per dog is posted.  The clock is     *)
(* read by every classification; it may have advanced across each await.      *)

RabiesProduct == ProductStr(<<"Rabies">>)

\* the animals the feeds of this specification speak of
MainAnimals == {1}

\* the scheduled-for values of feed (b): none, and one second after the start of the run
MainScheds == {StrAbsent, StrNum(Now0 + 1)}

\* feed (a): every record may be scheduled one second after the start of the run;
\* record 1 may instead be scheduled at the very start, or not at all
PoolA ==
  {RawRecord(id, a, RabiesProduct, "L1", StrNum(Now0 + 1), StrAbsent) :
     id \in 1..NumIds, a \in MainAnimals}
  \cup {RawRecord(1, a, RabiesProduct, "L1", s, StrAbsent) :
          a \in MainAnimals, s \in {StrAbsent, StrNum(Now0)}}

PoolB(a) ==
  {RawRecord(id, a, RabiesProduct, "L1", s, StrAbsent) : id \in 1..NumIds, s \in MainScheds}

FeedsA == SeqsUpTo(PoolA, MaxFeedA)
FeedsB(a) == SeqsUpTo(PoolB(a), MaxFeedB)

\* the clock readings possible after an await
AfterAwait == {c \in {clock, clock + 1} : c <= Now0 + MaxTicks}

Init ==
  /\ clock = Now0
  /\ ClassifierIdle
  /\ PagerIdle
  /\ pc = "fetchAll"
  /\ scheduledVaccines = <<>>
  /\ buckets = EmptyBuckets
  /\ animalsById = {}
  /\ dogsById = NoDogs
  /\ dogQueue = <<>>
  /\ seedDogs = NoDogs
  /\ fetchedB = <<>>
  /\ allVaccines = <<>>
  /\ posted = <<>>

\* const scheduledVaccines = await fetchAllScheduledVaccines()
FetchAllScheduledVaccines ==
  /\ pc = "fetchAll"
  /\ \E feed \in FeedsA : scheduledVaccines' = feed
  /\ clock' \in AfterAwait
  /\ pc' = "bucket"
  /\ UNCHANGED <<pagerVars, classifierVars, buckets, animalsById, dogsById, dogQueue, seedDogs,
                 fetchedB, allVaccines, posted>>

\* fetchAllScheduledVaccines throws: main().catch ends the process
FetchAllScheduledVaccinesFails ==
  /\ pc = "fetchAll"
  /\ pc' = "failed"
  /\ UNCHANGED <<pagerVars, clock, classifierVars, scheduledVaccines, buckets, animalsById, dogsById,
                 dogQueue, seedDogs, fetchedB, allVaccines, posted>>

\* const buckets = bucketScheduledVaccines(scheduledVaccines)
BucketScheduledVaccines ==
  /\ pc = "bucket"
  /\ NullElement \notin SeqToSet(scheduledVaccines)
  /\ buckets' = bucketScheduledVaccines(scheduledVaccines, clock)
  /\ pc' = "fetchAnimals"
  /\ UNCHANGED <<pagerVars, clock, classifierVars, scheduledVaccines, animalsById, dogsById, dogQueue,
                 seedDogs, fetchedB, allVaccines, posted>>

\* const animalsById = await fetchAnimalsForBuckets(buckets)
FetchAnimalsForBuckets ==
  /\ pc = "fetchAnimals"
  /\ \E answers \in [idsOfBuckets(buckets) -> AnimalAnswers] :
       animalsById' = fetchAnimalsForBuckets(buckets, answers)
  /\ clock' \in AfterAwait
  /\ pc' = "group"
  /\ UNCHANGED <<pagerVars, classifierVars, scheduledVaccines, buckets, dogsById, dogQueue, seedDogs,
                 fetchedB, allVaccines, posted>>

\* const dogsById = groupVaccinesByDog(buckets, animalsById), and the loop over its values
GroupVaccinesByDog ==
  /\ pc = "group"
  /\ dogsById' = groupVaccinesByDog(buckets, animalsById)
  /\ seedDogs' = dogsById'
  /\ dogQueue' = Ascending(DOMAIN dogsById')
  /\ pc' = "enrich"
  /\ UNCHANGED <<pagerVars, clock, classifierVars, scheduledVaccines, buckets, animalsById, fetchedB,
                 allVaccines, posted>>

\* one turn of the enrichment loop: the per-animal fetch, then the merge into the dog
EnrichDog ==
  /\ pc = "enrich"
  /\ dogQueue /= <<>>
  /\ LET id == Head(dogQueue)
     IN  \E perAnimalVaccines \in FeedsB(id) :
           /\ clock' \in AfterAwait
           /\ dogsById' = [dogsById EXCEPT ![id] = mergePerAnimal(@, perAnimalVaccines, clock')]
           /\ fetchedB' = (id :> perAnimalVaccines) @@ fetchedB
  /\ dogQueue' = Tail(dogQueue)
  /\ UNCHANGED <<pagerVars, classifierVars, pc, scheduledVaccines, buckets, animalsById, seedDogs,
                 allVaccines, posted>>

\* fetchScheduledVaccinesForAnimal throws: main().catch ends the process
EnrichDogFetchFails ==
  /\ pc = "enrich"
  /\ dogQueue /= <<>>
  /\ pc' = "failed"
  /\ UNCHANGED <<pagerVars, clock, classifierVars, scheduledVaccines, buckets, animalsById, dogsById,
                 dogQueue, seedDogs, fetchedB, allVaccines, posted>>

\* the posting loop entered while dogs are still to be enriched
EnrichDone_BeforeAllMerged ==
  /\ pc = "enrich"
  /\ dogQueue' = Ascending(DOMAIN dogsById)
  /\ pc' = "post"
  /\ UNCHANGED <<pagerVars, clock, classifierVars, scheduledVaccines, buckets, animalsById, dogsById,
                 seedDogs, fetchedB, allVaccines, posted>>

\* the enrichment loop is over: const dogEntries = Object.values(dogsById)
EnrichDone ==
  /\ pc = "enrich"
  /\ dogQueue = <<>>
  /\ dogQueue' = Ascending(DOMAIN dogsById)
  /\ pc' = "post"
  /\ UNCHANGED <<pagerVars, clock, classifierVars, scheduledVaccines, buckets, animalsById, dogsById,
                 seedDogs, fetchedB, allVaccines, posted>>

\* one turn of the posting loop, the webhook answering ok
PostDog ==
  /\ pc = "post"
  /\ dogQueue /= <<>>
  /\ posted' = Append(posted, buildSlackPayloadForDog(Head(dogQueue), dogsById[Head(dogQueue)]))
  /\ dogQueue' = Tail(dogQueue)
  /\ UNCHANGED <<pagerVars, clock, classifierVars, pc, scheduledVaccines, buckets, animalsById, dogsById,
                 seedDogs, fetchedB, allVaccines>>

\* the webhook answers not ok: process.exit(1)
PostDogFails ==
  /\ pc = "post"
  /\ dogQueue /= <<>>
  /\ pc' = "failed"
  /\ UNCHANGED <<pagerVars, clock, classifierVars, scheduledVaccines, buckets, animalsById, dogsById,
                 dogQueue, seedDogs, fetchedB, allVaccines, posted>>

\* the posting loop is over: main() returns
PostDone ==
  /\ pc = "post"
  /\ dogQueue = <<>>
  /\ pc' = "done"
  /\ UNCHANGED <<pagerVars, clock, classifierVars, scheduledVaccines, buckets, animalsById, dogsById,
                 dogQueue, seedDogs, fetchedB, allVaccines, posted>>

Next ==
  \/ FetchAllScheduledVaccines
  \/ FetchAllScheduledVaccinesFails
  \/ BucketScheduledVaccines
  \/ FetchAnimalsForBuckets
  \/ GroupVaccinesByDog
  \/ EnrichDog
  \/ EnrichDogFetchFails
  \/ EnrichDone
  \/ PostDog
  \/ PostDogFails
  \/ PostDone

Spec == Init /\ [][Next]_vars

----------------------------------------------------------------------------
(* SpecMalformed: main() of scripts/checkVaccines.js on feeds whose elements  *)
(* may be null or may lack an id, and whose per-animal feed may hold a record *)
(* of another owner or of none.  Every record is scheduled one second after   *)
(* the start of the run or, in feed (b), not at all.                          *)

\* the elements of feed (a): null, a record without an id, a record with id 1
MalformedPoolA ==
  {NullElement} \cup
  {RawRecord(id, a, RabiesProduct, "L1", StrNum(Now0 + 1), StrAbsent) :
     id \in {NoId, 1}, a \in MainAnimals}

\* the owners a record of feed (b) of animal a may name beside a: none, another animal
OtherOwners(a) == {NoId, a + 1}

\* the elements of feed (b) of animal a: null, a record of a without an id or with
\* id 1, and record 2 owned by another animal or by none
MalformedPoolB(a) ==
  {NullElement} \cup
  {RawRecord(id, a, RabiesProduct, "L1", s, StrAbsent) : id \in {NoId, 1}, s \in MainScheds}
  \cup {RawRecord(2, o, RabiesProduct, "L1", StrNum(Now0 + 1), StrAbsent) : o \in OtherOwners(a)}

MalformedFeedsA == SeqsUpTo(MalformedPoolA, MaxFeedA)
MalformedFeedsB(a) == SeqsUpTo(MalformedPoolB(a), MaxFeedB)

\* const scheduledVaccines = await fetchAllScheduledVaccines()
FetchAllScheduledVaccinesMalformed ==
  /\ pc = "fetchAll"
  /\ \E feed \in MalformedFeedsA : scheduledVaccines' = feed
  /\ clock' \in AfterAwait
  /\ pc' = "bucket"
  /\ UNCHANGED <<pagerVars, classifierVars, buckets, animalsById, dogsById, dogQueue, seedDogs,
                 fetchedB, allVaccines, posted>>

\* bucketScheduledVaccines reads v.scheduled_for of a null element: the TypeError
\* reaches main().catch, which ends the process
BucketScheduledVaccinesThrows ==
  /\ pc = "bucket"
  /\ NullElement \in SeqToSet(scheduledVaccines)
  /\ pc' = "raised"
  /\ UNCHANGED <<pagerVars, clock, classifierVars, scheduledVaccines, buckets, animalsById, dogsById,
                 dogQueue, seedDogs, fetchedB, allVaccines, posted>>

\* one turn of the enrichment loop, no element of the fetched feed being null
EnrichDogMalformed ==
  /\ pc = "enrich"
  /\ dogQueue /= <<>>
  /\ LET id == Head(dogQueue)
     IN  \E perAnimalVaccines \in MalformedFeedsB(id) :
           /\ NullElement \notin SeqToSet(perAnimalVaccines)
           /\ clock' \in AfterAwait
           /\ dogsById' = [dogsById EXCEPT ![id] = mergePerAnimal(@, perAnimalVaccines, clock')]
           /\ fetchedB' = (id :> perAnimalVaccines) @@ fetchedB
  /\ dogQueue' = Tail(dogQueue)
  /\ UNCHANGED <<pagerVars, classifierVars, pc, scheduledVaccines, buckets, animalsById, seedDogs,
                 allVaccines, posted>>

\* the merge loop reads v.id of a null element: the records before it were merged,
\* then the TypeError reaches main().catch, which ends the process
EnrichDogThrows ==
  /\ pc = "enrich"
  /\ dogQueue /= <<>>
  /\ LET id == Head(dogQueue)
     IN  \E perAnimalVaccines \in MalformedFeedsB(id) :
           /\ NullElement \in SeqToSet(perAnimalVaccines)
           /\ clock' \in AfterAwait
           /\ dogsById' = [dogsById EXCEPT
                             ![id] = mergePerAnimal(@, beforeNull(perAnimalVaccines), clock')]
  /\ pc' = "raised"
  /\ UNCHANGED <<pagerVars, classifierVars, scheduledVaccines, buckets, animalsById, dogQueue, seedDogs,
                 fetchedB, allVaccines, posted>>

NextMalformed ==
  \/ FetchAllScheduledVaccinesMalformed
  \/ FetchAllScheduledVaccinesFails
  \/ BucketScheduledVaccines
  \/ BucketScheduledVaccinesThrows
  \/ FetchAnimalsForBuckets
  \/ GroupVaccinesByDog
  \/ EnrichDogMalformed
  \/ EnrichDogThrows
  \/ EnrichDogFetchFails
  \/ EnrichDone
  \/ PostDog
  \/ PostDogFails
  \/ PostDone

SpecMalformed == Init /\ [][NextMalformed]_vars

----------------------------------------------------------------------------
(* SpecTwoDogs: main() of scripts/checkVaccines.js on feeds that speak of two *)
(* animals, so that the enrichment loop and the posting loop each have up to  *)
(* two turns.  Record a of feed (a) belongs to animal a; feed (b) of an       *)
(* animal is empty or holds one record feed (a) does not have.                *)

TwoAnimals == {1, 2}

\* the one record of each animal in feed (a)
TwoDogsPoolA ==
  {RawRecord(a, a, RabiesProduct, "L1", StrNum(Now0 + 1), StrAbsent) : a \in TwoAnimals}

\* feed (a): in either order, and each animal has at most one record
TwoDogsFeedsA ==
  {q \in SeqsUpTo(TwoDogsPoolA, MaxFeedA) : \A i, j \in 1..Len(q) : i < j => q[i] /= q[j]}

\* feed (b) of animal a: nothing, or one record unknown to feed (a)
TwoDogsFeedsB(a) ==
  {<<>>} \cup
  {<<RawRecord(NumIds + a, a, RabiesProduct, "L1", s, StrAbsent)>> : s \in MainScheds}

\* const scheduledVaccines = await fetchAllScheduledVaccines()
FetchAllScheduledVaccinesTwoDogs ==
  /\ pc = "fetchAll"
  /\ \E feed \in TwoDogsFeedsA : scheduledVaccines' = feed
  /\ clock' \in AfterAwait
  /\ pc' = "bucket"
  /\ UNCHANGED <<pagerVars, classifierVars, buckets, animalsById, dogsById, dogQueue, seedDogs,
                 fetchedB, allVaccines, posted>>

\* one turn of the enrichment loop: the per-animal fetch, then the merge into the dog
EnrichDogTwoDogs ==
  /\ pc = "enrich"
  /\ dogQueue /= <<>>
  /\ LET id == Head(dogQueue)
     IN  \E perAnimalVaccines \in TwoDogsFeedsB(id) :
           /\ clock' \in AfterAwait
           /\ dogsById' = [dogsById EXCEPT ![id] = mergePerAnimal(@, perAnimalVaccines, clock')]
           /\ fetchedB' = (id :> perAnimalVaccines) @@ fetchedB
  /\ dogQueue' = Tail(dogQueue)
  /\ UNCHANGED <<pagerVars, classifierVars, pc, scheduledVaccines, buckets, animalsById, seedDogs,
                 allVaccines, posted>>

NextTwoDogs ==
  \/ FetchAllScheduledVaccinesTwoDogs
  \/ FetchAllScheduledVaccinesFails
  \/ BucketScheduledVaccines
  \/ FetchAnimalsForBuckets
  \/ GroupVaccinesByDog
  \/ EnrichDogTwoDogs
  \/ EnrichDogFetchFails
  \/ EnrichDone
  \/ PostDog
  \/ PostDogFails
  \/ PostDone

SpecTwoDogs == Init /\ [][NextTwoDogs]_vars

----------------------------------------------------------------------------
(* SpecPager: fetchAllScheduledVaccines (scripts/checkVaccines.js and         *)
(* unnamed/part_000, the same loop).  The function sends a request, awaits    *)
(* the response, handles it and either sends the next request or returns.     *)
(* The server is free in what it answers: a body of any shape, a page of any  *)
(* length, any has_more; it answers at most MaxPages requests of a call.      *)

\* record number n of the server's list
PageRecord(n) == RawRecord(n, 1, RabiesProduct, "L1", StrAbsent, StrAbsent)

\* the page of len records that starts after the first `from` records of the list
Page(from, len) == [i \in 1..len |-> PageRecord(from + i)]

\* page lengths: none, one, a page less one record, a full page, a page and one record
PageLens == {0, 1, limit - 1, limit, limit + 1}

\* json.has_more: true, false, or not there
HasMores == {"true", "false", "absent"}

\* The bodies answered to a request at offset o: { vaccines: [...], has_more },
\* a bare array (has_more of an array is undefined), an object without a list.
Bodies(o) ==
  {[shape |-> "object", vaccines |-> Page(o, n), has_more |-> h] :
     n \in PageLens, h \in HasMores}
  \cup {[shape |-> "array", vaccines |-> Page(o, n), has_more |-> "absent"] : n \in PageLens}
  \cup {[shape |-> "other", vaccines |-> <<>>, has_more |-> h] : h \in HasMores}

\* batch = Array.isArray(json.vaccines) ? json.vaccines : json; the batch is a list
batchIsArray(body) == body.shape \in {"object", "array"}
batchOf(body) == body.vaccines

\* if (!Array.isArray(batch) || batch.length === 0) break
noBatch(body) == ~batchIsArray(body) \/ Len(batchOf(body)) = 0

\* the test that lets a page with has_more true go on whatever its length
lastBatch_HasMoreOnly(body) == body.has_more = "false"

\* if (json.has_more === false || batch.length < limit) break
lastBatch(body) == body.has_more = "false" \/ Len(batchOf(body)) < limit

InitPager ==
  /\ clock = Now0
  /\ ClassifierIdle
  /\ MainIdle
  /\ PagerIdle

\* fetchAllScheduledVaccines() is called: offset = 0, all = [], and the first request
CallFetchAllScheduledVaccines ==
  /\ pc = "idle"
  /\ offset' = 0
  /\ all' = <<>>
  /\ requested' = <<0>>
  /\ pc' = "await"
  /\ UNCHANGED <<json, received, clock, classifierVars, scheduledVaccines, buckets,
                 animalsById, dogsById, dogQueue, seedDogs, fetchedB, allVaccines, posted>>

\* await fetch(url), res.ok, await res.json(): the body arrives
ResponseArrives ==
  /\ pc = "await"
  /\ Len(received) < MaxPages
  /\ json' \in Bodies(offset)
  /\ received' = Append(received, json')
  /\ pc' = "handle"
  /\ UNCHANGED <<offset, all, requested, clock, classifierVars, scheduledVaccines, buckets,
                 animalsById, dogsById, dogQueue, seedDogs, fetchedB, allVaccines, posted>>

\* !res.ok: throw new Error(...)
ResponseNotOk ==
  /\ pc = "await"
  /\ pc' = "threw"
  /\ UNCHANGED <<pagerVars, clock, classifierVars, scheduledVaccines, buckets, animalsById,
                 dogsById, dogQueue, seedDogs, fetchedB, allVaccines, posted>>

\* the rest of the turn of while (true): break and return all, or push the batch and
\* either break or send the request of the next offset
HandlePage ==
  /\ pc = "handle"
  /\ IF noBatch(json)
     THEN /\ pc' = "returned"
          /\ UNCHANGED <<offset, all, requested>>
     ELSE /\ all' = all \o batchOf(json)
          /\ IF lastBatch(json)
             THEN /\ pc' = "returned"
                  /\ UNCHANGED <<offset, requested>>
             ELSE /\ offset' = offset + limit
                  /\ requested' = Append(requested, offset')
                  /\ pc' = "await"
  /\ UNCHANGED <<json, received, clock, classifierVars, scheduledVaccines, buckets,
                 animalsById, dogsById, dogQueue, seedDogs, fetchedB, allVaccines, posted>>

NextPager ==
  \/ CallFetchAllScheduledVaccines
  \/ ResponseArrives
  \/ ResponseNotOk
  \/ HandlePage

\* a response that has arrived is handled: the continuation of the await runs
SpecPager == InitPager /\ [][NextPager]_vars /\ WF_vars(HandlePage)

----------------------------------------------------------------------------
(* SpecHistory: main() of the variant that reads every in-custody dog's full  *)
(* vaccine history (unnamed/part_000).  For each dog: fetch its history,      *)
(* bucket the records that have a scheduled_for, build the payload from the   *)
(* buckets and the history, post it.  The turns of the loop share no state;   *)
(* lists of at most one dog are followed.                                     *)

DhppProduct == ProductStr(<<"DHPP">>)

\* scheduled-for values: none, text, beyond Date, a day ago, in 40 days, in 41 days
HistoryScheds ==
  {StrAbsent, StrText, StrHuge, StrNum(Now0 - SecPerDay), StrNum(Now0 + 40 * SecPerDay),
   StrNum(Now0 + 41 * SecPerDay)}

\* completed-at values: none, beyond Date, 400 days ago, 30 days ago
HistoryCompleted ==
  {StrAbsent, StrHuge, StrNum(Now0 - 400 * SecPerDay), StrNum(Now0 - 30 * SecPerDay)}

HistoryPool ==
  {RawRecord(1, 1, p, "L1", s, c) :
     p \in {RabiesProduct, DhppProduct}, s \in HistoryScheds, c \in HistoryCompleted}

\* one dog's history: a rabies dose completed 400 days ago, a rabies dose scheduled in
\* 10 days, a DHPP dose scheduled in 45 days, and no bordetella record
RicoRecords ==
  {RawRecord(1, 1, RabiesProduct, "L1", StrAbsent, StrNum(Now0 - 400 * SecPerDay)),
   RawRecord(2, 1, RabiesProduct, "L1", StrNum(Now0 + 10 * SecPerDay), StrAbsent),
   RawRecord(3, 1, DhppProduct, "L1", StrNum(Now0 + 45 * SecPerDay), StrAbsent)}

\* that history, in every order the API may give it
RicoFeeds == {q \in [1..3 -> RicoRecords] : SeqToSet(q) = RicoRecords}

\* a history holds at most MaxFeedB records, or it is Rico's
HistoryFeeds == SeqsUpTo(HistoryPool, MaxFeedB) \cup RicoFeeds

InCustodyLists == {<<>>, <<1>>}

InitHistory ==
  /\ clock = Now0
  /\ ClassifierIdle
  /\ PagerIdle
  /\ pc = "custody"
  /\ scheduledVaccines = <<>>
  /\ buckets = EmptyBuckets
  /\ animalsById = {}
  /\ dogsById = NoDogs
  /\ dogQueue = <<>>
  /\ seedDogs = NoDogs
  /\ fetchedB = <<>>
  /\ allVaccines = <<>>
  /\ posted = <<>>

\* const inCustodyDogs = await fetchAllInCustodyDogs()
FetchAllInCustodyDogs ==
  /\ pc = "custody"
  /\ dogQueue' \in InCustodyLists
  /\ clock' \in AfterAwait
  /\ pc' = "history"
  /\ UNCHANGED <<pagerVars, classifierVars, scheduledVaccines, buckets, animalsById, dogsById, seedDogs,
                 fetchedB, allVaccines, posted>>

\* allVaccines = await fetchAllVaccinesForAnimal(animalId)
FetchAllVaccinesForAnimal ==
  /\ pc = "history"
  /\ dogQueue /= <<>>
  /\ allVaccines' \in HistoryFeeds
  /\ clock' \in AfterAwait
  /\ pc' = "report"
  /\ UNCHANGED <<pagerVars, classifierVars, scheduledVaccines, buckets, animalsById, dogsById, dogQueue,
                 seedDogs, fetchedB, posted>>

\* fetchAllVaccinesForAnimal throws: the error is logged and the loop continues
FetchAllVaccinesForAnimalFails ==
  /\ pc = "history"
  /\ dogQueue /= <<>>
  /\ dogQueue' = Tail(dogQueue)
  /\ UNCHANGED <<pagerVars, clock, classifierVars, pc, scheduledVaccines, buckets, animalsById, dogsById,
                 seedDogs, fetchedB, allVaccines, posted>>

\* allVaccines.filter((v) => v.scheduled_for): a string is truthy unless it is empty
hasScheduledFor(v) == v.scheduled_for.k \notin {"absent", "empty"}

\* the dog object built from the buckets of its scheduled records
dogOfHistory(history, now) ==
  bucketScheduledVaccines(SelectSeq(history, hasScheduledFor), now)

\* the turn that moves on to the next dog when the history is empty
ReportDog_SkipEmpty(ok) ==
  /\ pc = "report"
  /\ LET id == Head(dogQueue)
         dog == dogOfHistory(allVaccines, clock)
     IN  /\ dogsById' = IF allVaccines = <<>> THEN dogsById ELSE (id :> dog) @@ dogsById
         /\ posted' = IF ok /\ allVaccines /= <<>>
                      THEN Append(posted, buildSlackPayloadForDogWithHistory(id, dog, allVaccines))
                      ELSE posted
  /\ dogQueue' = Tail(dogQueue)
  /\ pc' = "history"
  /\ UNCHANGED <<pagerVars, clock, classifierVars, scheduledVaccines, buckets, animalsById, seedDogs,
                 fetchedB, allVaccines>>

\* the rest of the turn: bucket, build the payload, post it; ok tells the webhook's answer
ReportDog(ok) ==
  /\ pc = "report"
  /\ LET id == Head(dogQueue)
         dog == dogOfHistory(allVaccines, clock)
     IN  /\ dogsById' = (id :> dog) @@ dogsById
         /\ posted' = IF ok
                      THEN Append(posted, buildSlackPayloadForDogWithHistory(id, dog, allVaccines))
                      ELSE posted
  /\ dogQueue' = Tail(dogQueue)
  /\ pc' = "history"
  /\ UNCHANGED <<pagerVars, clock, classifierVars, scheduledVaccines, buckets, animalsById, seedDogs,
                 fetchedB, allVaccines>>

PostDogWithHistory == ReportDog(TRUE)

\* the webhook answers not ok: the failure is logged and the loop continues
PostDogWithHistoryFails == ReportDog(FALSE)

\* the loop is over: main() returns
HistoryDone ==
  /\ pc = "history"
  /\ dogQueue = <<>>
  /\ pc' = "done"
  /\ UNCHANGED <<pagerVars, clock, classifierVars, scheduledVaccines, buckets, animalsById, dogsById,
                 dogQueue, seedDogs, fetchedB, allVaccines, posted>>

NextHistory ==
  \/ FetchAllInCustodyDogs
  \/ FetchAllVaccinesForAnimal
  \/ FetchAllVaccinesForAnimalFails
  \/ PostDogWithHistory
  \/ PostDogWithHistoryFails
  \/ HistoryDone

SpecHistory == InitHistory /\ [][NextHistory]_vars

----------------------------------------------------------------------------
(* The older variant of the script (unnamed/part_001): four buckets, and a    *)
(* canonical record that does not carry its status.                           *)

OlderBucketNames == {"overdue", "needsAttention", "upcoming", "current"}

EmptyBucketsOlder == [b \in OlderBucketNames |-> <<>>]

RECURSIVE bucketScheduledVaccinesOlderFrom(_, _, _)
\* the if / else if chain has no last else: a record of unknown status is pushed nowhere
bucketScheduledVaccinesOlderFrom(acc, vaccines, now) ==
  IF vaccines = <<>> THEN acc
  ELSE LET v == Head(vaccines)
           c == classifyByDueWindow(v.scheduled_for, now)
           base == [vaccineId |-> v.id, animalId |-> v.animal_id, product |-> v.product,
                    lot |-> v.lot, scheduledFor |-> c.date, diffDays |-> c.diffDays]
       IN  bucketScheduledVaccinesOlderFrom(
             IF c.status \in OlderBucketNames
             THEN [acc EXCEPT ![c.status] = Append(@, base)] ELSE acc,
             Tail(vaccines), now)

bucketScheduledVaccinesOlder(vaccines, now) ==
  bucketScheduledVaccinesOlderFrom(EmptyBucketsOlder, vaccines, now)

\* addToDogBucket(vaccine, status): the dogs after the call
addToDogBucketOlder(dogs, byId, vaccine, status) ==
  LET id == vaccine.animalId
  IN  IF id = NoId THEN dogs
      ELSE IF id \notin byId THEN dogs
      ELSE LET ensured == IF id \in DOMAIN dogs THEN dogs
                          ELSE (id :> EmptyBucketsOlder) @@ dogs
           IN  [ensured EXCEPT ![id][status] = Append(@, vaccine)]

RECURSIVE addBucketOlder(_, _, _, _)
\* for (const v of buckets[status]) addToDogBucket(v, status)
addBucketOlder(dogs, byId, list, status) ==
  IF list = <<>> THEN dogs
  ELSE addBucketOlder(addToDogBucketOlder(dogs, byId, Head(list), status), byId,
                      Tail(list), status)

groupVaccinesByDogOlder(b, byId) ==
  addBucketOlder(
    addBucketOlder(
      addBucketOlder(
        addBucketOlder(NoDogs, byId, b.overdue, "overdue"),
        byId, b.needsAttention, "needsAttention"),
      byId, b.upcoming, "upcoming"),
    byId, b.current, "current")

----------------------------------------------------------------------------
(* SpecBuckets: bucketScheduledVaccines and groupVaccinesByDog, of            *)
(* checkVaccines.js (whose bucketScheduledVaccines is also that of            *)
(* unnamed/part_000) and of unnamed/part_001, applied to a feed of records    *)
(* of every window status, owned by animal 1, by animal 2 or by no animal.    *)

\* scheduled-for values: none, a day ago, in 1 day, in 20 days, in 40 days
BucketScheds ==
  {StrAbsent, StrNum(Now0 - SecPerDay), StrNum(Now0 + SecPerDay),
   StrNum(Now0 + 20 * SecPerDay), StrNum(Now0 + 40 * SecPerDay)}

BucketPool ==
  {RawRecord(1, a, RabiesProduct, "L1", s, StrAbsent) : a \in {NoId, 1, 2}, s \in BucketScheds}

\* one record more than feed (a) of the main script: a dog's, another animal's, nobody's
BucketFeeds == SeqsUpTo(BucketPool, MaxFeedA + 1)

InitBuckets ==
  /\ clock = Now0
  /\ ClassifierIdle
  /\ PagerIdle
  /\ pc = "input"
  /\ scheduledVaccines \in BucketFeeds
  /\ buckets = EmptyBuckets
  /\ animalsById = {}
  /\ dogsById = NoDogs
  /\ dogQueue = <<>>
  /\ seedDogs = NoDogs
  /\ fetchedB = <<>>
  /\ allVaccines = <<>>
  /\ posted = <<>>

\* bucketScheduledVaccines(scheduledVaccines) of checkVaccines.js and part_000
CallBucketScheduledVaccines ==
  /\ pc = "input"
  /\ buckets' = bucketScheduledVaccines(scheduledVaccines, clock)
  /\ pc' = "bucketed"
  /\ UNCHANGED <<pagerVars, clock, classifierVars, scheduledVaccines, animalsById, dogsById, dogQueue,
                 seedDogs, fetchedB, allVaccines, posted>>

\* bucketScheduledVaccines(scheduledVaccines) of part_001
CallBucketScheduledVaccinesOlder ==
  /\ pc = "input"
  /\ buckets' = bucketScheduledVaccinesOlder(scheduledVaccines, clock)
  /\ pc' = "bucketedOlder"
  /\ UNCHANGED <<pagerVars, clock, classifierVars, scheduledVaccines, animalsById, dogsById, dogQueue,
                 seedDogs, fetchedB, allVaccines, posted>>

\* groupVaccinesByDog(buckets, animalsById) of checkVaccines.js, animalsById being any
\* part of the animals that were looked up
CallGroupVaccinesByDog ==
  /\ pc = "bucketed"
  /\ animalsById' \in SUBSET idsOfBuckets(buckets)
  /\ dogsById' = groupVaccinesByDog(buckets, animalsById')
  /\ pc' = "grouped"
  /\ UNCHANGED <<pagerVars, clock, classifierVars, scheduledVaccines, buckets, dogQueue, seedDogs,
                 fetchedB, allVaccines, posted>>

\* groupVaccinesByDog(buckets, animalsById) of part_001
CallGroupVaccinesByDogOlder ==
  /\ pc = "bucketedOlder"
  /\ animalsById' \in SUBSET idsOfBuckets(buckets)
  /\ dogsById' = groupVaccinesByDogOlder(buckets, animalsById')
  /\ pc' = "groupedOlder"
  /\ UNCHANGED <<pagerVars, clock, classifierVars, scheduledVaccines, buckets, dogQueue, seedDogs,
                 fetchedB, allVaccines, posted>>

NextBuckets ==
  \/ CallBucketScheduledVaccines
  \/ CallBucketScheduledVaccinesOlder
  \/ CallGroupVaccinesByDog
  \/ CallGroupVaccinesByDogOlder

SpecBuckets == InitBuckets /\ [][NextBuckets]_vars

----------------------------------------------------------------------------
(* Claims on bucketing and grouping (SpecBuckets) *)

\* what identifies a canonical record, and the raw record it was built from
KeyOfCanonical(r) == <<r.vaccineId, r.animalId, r.scheduledFor>>
KeyOfRaw(v) == <<v.id, v.animal_id, unixStringToDate(v.scheduled_for)>>

\* the keys of the records of a sequence, in its order
Keys(q, KeyOf(_)) == [i \in 1..Len(q) |-> KeyOf(q[i])]

\* the bucket of that name, empty when the buckets have none of that name
BucketNamed(b, name) == IF name \in DOMAIN b THEN b[name] ELSE <<>>

\* C14: bucketScheduledVaccines, in each variant of the script, places every
\* input record in exactly one of the five window-status buckets, the one
\* named by the record's window status; no input record is lost or
\* duplicated.
C14_BucketsPartition ==
  (pc \in {"bucketed", "bucketedOlder"}) =>
    \A name \in BucketNames :
      Keys(BucketNamed(buckets, name), KeyOfCanonical) =
        Keys(SelectSeq(scheduledVaccines,
                       LAMBDA v : classifyByDueWindow(v.scheduled_for, clock).status = name),
             KeyOfRaw)

\* the records of the buckets that groupVaccinesByDog must keep
KeptBy(name) ==
  SelectSeq(buckets[name], LAMBDA v : v.animalId /= NoId /\ v.animalId \in animalsById)

\* C16: groupVaccinesByDog files a record only under its own owning animal
\* and only when that animal is in the lookup result: records with no
\* animal id or with an animal id missing from animalsById are dropped, no
\* other record is dropped, and every record kept stays in the bucket it had.
C16_GroupKeepsOwnersRecords ==
  (pc \in {"grouped", "groupedOlder"}) =>
    /\ DOMAIN dogsById \subseteq animalsById \ {NoId}
    /\ \A name \in DOMAIN buckets :
         /\ \A d \in DOMAIN dogsById :
              dogsById[d][name] = SelectSeq(KeptBy(name), LAMBDA v : v.animalId = d)
         /\ \A v \in SeqToSet(KeptBy(name)) : v.animalId \in DOMAIN dogsById

\* a feed was grouped that holds a record of a dog that is in the lookup
\* result, a record of an animal that is not, and a record of no animal
C16_Witness ==
  /\ pc \in {"grouped", "groupedOlder"}
  /\ DOMAIN dogsById /= {}
  /\ \E v \in SeqToSet(scheduledVaccines) : v.animal_id = NoId
  /\ \E v \in SeqToSet(scheduledVaccines) : v.animal_id \notin animalsById \cup {NoId}

----------------------------------------------------------------------------
(* Claims on the reconciliation of checkVaccines.js (Spec) *)

\* the dogs whose enrichment with feed (b) is over
Enriched == DOMAIN fetchedB

\* the identifiers of the dog's records in feed (a)
FeedAIds(d) ==
  {scheduledVaccines[i].id : i \in {j \in 1..Len(scheduledVaccines) :
                                      scheduledVaccines[j].animal_id = d}}

\* the identifiers of the dog's feed (b)
FeedBIds(d) == {fetchedB[d][i].id : i \in 1..Len(fetchedB[d])}

\* the records of a dog held under identifier id, in the order the buckets are read
HeldUnder(dog, id) == SelectSeq(allOf(dog), LAMBDA v : v.vaccineId = id)

IsPrefix(p, q) == Len(p) <= Len(q) /\ \A i \in 1..Len(p) : p[i] = q[i]

\* C4: after feeds (a) and (b) are reconciled, a dog's five buckets together
\* hold at most one record per record identifier, whatever the feeds hold.
C4_OneRecordPerIdentifier ==
  \A d \in Enriched :
    \A id \in idsOfDog(dogsById[d]) \ {NoId} : Len(HeldUnder(dogsById[d], id)) = 1

\* C5: reconciliation never removes, moves or alters a record of feed (a): in
\* every bucket the records grouped from feed (a) stay where they were, and
\* no record of feed (b) is held under an identifier feed (a) already gave.
C5_FeedAKept ==
  \A d \in DOMAIN dogsById :
    /\ \A b \in BucketNames : IsPrefix(seedDogs[d][b], dogsById[d][b])
    /\ \A id \in idsOfDog(seedDogs[d]) :
         HeldUnder(dogsById[d], id) = HeldUnder(seedDogs[d], id)

\* a dog was enriched with a feed (b) holding, under an identifier of feed
\* (a), a record whose scheduled-for differs from the one feed (a) gave
C5_Witness ==
  \E d \in Enriched : \E i \in 1..Len(fetchedB[d]) : \E w \in SeqToSet(allOf(seedDogs[d])) :
    /\ w.vaccineId = fetchedB[d][i].id
    /\ w.scheduledFor /= unixStringToDate(fetchedB[d][i].scheduled_for)
    /\ w \in SeqToSet(allOf(dogsById[d]))

\* C6: after reconciliation the identifiers held in a dog's buckets are
\* exactly those of its feed-(a) records and those of its feed-(b) records.
C6_IdsAreTheUnion ==
  \A d \in Enriched : idsOfDog(dogsById[d]) = FeedAIds(d) \cup FeedBIds(d)

\* a dog was enriched whose feed (a) and feed (b) each give an identifier the
\* other does not, one of feed (b)'s new records having no scheduled-for
C6_Witness ==
  \E d \in Enriched :
    /\ FeedAIds(d) \ FeedBIds(d) /= {}
    /\ FeedBIds(d) \ FeedAIds(d) /= {}
    /\ \E v \in SeqToSet(dogsById[d].unknown) : v.vaccineId \notin FeedAIds(d)

\* C7: merging the same feed (b) into the dog a second time, at any later
\* reading of the clock, leaves the dog's buckets exactly as they were.
C7_MergeIdempotent ==
  \A d \in Enriched : \A now \in Now0..(Now0 + MaxTicks) :
    mergePerAnimal(dogsById[d], fetchedB[d], now) = dogsById[d]

\* a dog was enriched with a feed (b) that repeats an identifier feed (a)
\* did not give, so the first merge added a record
C7_Witness ==
  \E d \in Enriched : \E i, j \in 1..Len(fetchedB[d]) :
    /\ i < j
    /\ fetchedB[d][i].id = fetchedB[d][j].id
    /\ fetchedB[d][i].id \notin FeedAIds(d)
    /\ Len(allOf(dogsById[d])) = Len(allOf(seedDogs[d])) + 1

\* C8: within one run two records with the same scheduled-for instant get
\* the same window status and the same diffDays, whether they were
\* classified in the org-wide bucketing or in the per-animal merge.
C8_OneNowPerRun ==
  \A d \in DOMAIN dogsById : \A v, w \in SeqToSet(allOf(buckets) \o allOf(dogsById[d])) :
    (v.scheduledFor.k = "date" /\ v.scheduledFor = w.scheduledFor) =>
      (v.status = w.status /\ v.diffDays = w.diffDays)

----------------------------------------------------------------------------
(* Claims on the rollup of the history variant (SpecHistory) *)

\* the payload posted last, and the dog it was built from
LastPayload == posted[Len(posted)]
LastDog == dogsById[LastPayload.animalId]

\* the records of the dog's buckets that belong to family key
Candidates(key) == SeqToSet(forType(allOf(LastDog), key))

\* C9: for each core family the next-due record chosen has the smallest
\* resolved scheduled-for instant among the dog's bucketed records of that
\* family, and a record with no resolved instant is chosen only when every
\* candidate of the family has none.
C9_NextDueIsSoonest ==
  (posted /= <<>>) =>
    \A key \in CoreKeys :
      LET chosen == LastPayload.core[key].soonest
      IN  /\ Candidates(key) /= {} => chosen \in Candidates(key)
          /\ \A c \in Candidates(key) :
               c.scheduledFor.k = "date" =>
                 /\ chosen.scheduledFor.k = "date"
                 /\ chosen.scheduledFor.t <= c.scheduledFor.t

\* the completed-at instants of the history's records of family key
CompletedInstants(key) ==
  {v.completed_at.n : v \in {w \in SeqToSet(allVaccines) :
                               /\ classifyVaccineType(w.product) = key
                               /\ w.completed_at.k = "num"}}

\* C10: for each core family last-given is the latest resolved completed-at
\* among the history records of that family, and it is absent exactly when
\* no record of the family has a resolvable completed-at.
C10_LastGivenIsLatest ==
  (posted /= <<>>) =>
    \A key \in CoreKeys :
      LET lastGiven == LastPayload.core[key].lastGiven
      IN  /\ (lastGiven = DateNull) <=> (CompletedInstants(key) = {})
          /\ lastGiven /= DateNull =>
               /\ lastGiven.k = "date"
               /\ lastGiven.t \in CompletedInstants(key)
               /\ \A t \in CompletedInstants(key) : t <= lastGiven.t

\* a payload was posted for a history with two rabies doses, completed 400
\* and 30 days ago, and no completed DHPP dose
C10_Witness ==
  /\ posted /= <<>>
  /\ CompletedInstants("rabies") = {Now0 - 400 * SecPerDay, Now0 - 30 * SecPerDay}
  /\ LastPayload.core["rabies"].lastGiven = DateAt(Now0 - 30 * SecPerDay)
  /\ CompletedInstants("dhpp_dapp") = {}
  /\ LastPayload.core["dhpp_dapp"].lastGiven = DateNull

\* C11: for each core family the display status is the window status of the
\* next-due record whenever the dog has a bucketed record of the family;
\* otherwise it is current when the dog's history holds a record of the
\* family, and none when the dog has no record of the family at all.
C11_DisplayStatus ==
  (posted /= <<>>) =>
    \A key \in CoreKeys :
      LET rollup == LastPayload.core[key]
      IN  IF Candidates(key) /= {}
          THEN rollup.soonest \in Candidates(key) /\ rollup.statusKey = rollup.soonest.status
          ELSE IF \E v \in SeqToSet(allVaccines) : classifyVaccineType(v.product) = key
          THEN rollup.statusKey = "current"
          ELSE rollup.statusKey = "none"

\* a payload was posted for a dog with an overdue rabies record, a DHPP dose
\* that was only ever completed, and no bordetella record
C11_Witness ==
  /\ posted /= <<>>
  /\ LastPayload.core["rabies"].statusKey = "overdue"
  /\ Candidates("dhpp_dapp") = {}
  /\ LastPayload.core["dhpp_dapp"].statusKey = "current"
  /\ LastPayload.core["bordetella"].statusKey = "none"

\* C15: a dog whose identity is known and that owns no vaccine record at all
\* is still materialized: its turn builds the dog with five empty buckets
\* and a payload showing every core family as none, which is posted unless
\* the webhook refuses it.
C15_ZeroRecordDogMaterialized ==
  [][(pc = "report" /\ allVaccines = <<>>) =>
       LET id == Head(dogQueue)
       IN  /\ id \in DOMAIN dogsById'
           /\ dogsById'[id] = EmptyBuckets
           /\ \/ posted' = posted
              \/ /\ Len(posted') = Len(posted) + 1
                 /\ posted'[Len(posted')].animalId = id
                 /\ \A key \in CoreKeys : posted'[Len(posted')].core[key].statusKey = "none"]_vars

\* a payload was posted for a dog whose history is empty
C15_Witness ==
  /\ posted /= <<>>
  /\ allVaccines = <<>>
  /\ LastDog = EmptyBuckets
  /\ \A key \in CoreKeys : LastPayload.core[key].statusKey = "none"

\* what the payload shows of a family: last given, display status, day count
Shown(key) ==
  [lastGiven |-> LastPayload.core[key].lastGiven,
   statusKey |-> LastPayload.core[key].statusKey,
   days |-> LastPayload.core[key].days]

\* C12, as amended: for Rico's history the rollups are rabies = last given
\* 400 days ago, needsAttention, 10 days ahead; DHPP = no last given,
\* current (45 days is beyond the 30 days of upcoming), 45 days ahead;
\* bordetella = none.
C12_RicoRollup ==
  (posted /= <<>> /\ allVaccines \in RicoFeeds) =>
    /\ Shown("rabies") = [lastGiven |-> DateAt(Now0 - 400 * SecPerDay),
                          statusKey |-> "needsAttention", days |-> Num(10)]
    /\ Shown("dhpp_dapp") = [lastGiven |-> DateNull, statusKey |-> "current",
                             days |-> Num(45)]
    /\ LastPayload.core["bordetella"].statusKey = "none"

\* C12, as stated: the same, the DHPP dose due in 45 days shown as upcoming.
C12_RicoRollupAsStated ==
  (posted /= <<>> /\ allVaccines \in RicoFeeds) =>
    /\ Shown("rabies") = [lastGiven |-> DateAt(Now0 - 400 * SecPerDay),
                          statusKey |-> "needsAttention", days |-> Num(10)]
    /\ Shown("dhpp_dapp") = [lastGiven |-> DateNull, statusKey |-> "upcoming",
                             days |-> Num(45)]
    /\ LastPayload.core["bordetella"].statusKey = "none"

\* a payload was posted for Rico, the clock having advanced since the start
\* of the run
C12_Witness ==
  /\ posted /= <<>>
  /\ allVaccines \in RicoFeeds
  /\ clock > Now0
  /\ LastPayload.core["rabies"].soonest.vaccineId = 2

----------------------------------------------------------------------------
(* Claims on the payloads of checkVaccines.js (Spec) *)

ForwardLooking == {"needsAttention", "upcoming", "current"}

\* the rollups posted whose next-due record has a forward-looking status
ForwardRollups ==
  {r \in {posted[i].core[key] : i \in 1..Len(posted), key \in CoreKeys} :
     r.statusKey \in ForwardLooking}

\* n is the least whole number of days that is not less than the offset d
IsCeilOf(n, d) == n * SecPerDay >= d /\ (n - 1) * SecPerDay < d

\* C13, as amended: for every next-due record with a forward-looking status
\* the displayed day count is ceil(diffDays): at least 1 for a dose due any
\* time after now, and 0 for a dose due at the very instant of now.
C13_DayCountIsCeil ==
  \A r \in ForwardRollups :
    /\ r.days.k = "num"
    /\ IsCeilOf(r.days.v, r.soonest.diffDays.v)
    /\ r.soonest.diffDays.v > 0 => r.days.v >= 1
    /\ r.soonest.diffDays.v = 0 => r.days.v = 0

\* C13, as stated: the displayed day count is ceil(diffDays) and such a dose
\* never reads as in 0 days.
C13_NeverInZeroDays ==
  \A r \in ForwardRollups :
    /\ r.days.k = "num"
    /\ IsCeilOf(r.days.v, r.soonest.diffDays.v)
    /\ r.days.v >= 1

\* a payload was posted whose next rabies dose, due one second after now,
\* reads as in 1 day
C13_Witness ==
  \E r \in ForwardRollups :
    /\ r.soonest.diffDays = Num(1)
    /\ r.days = Num(1)

\* the adoptable-dog lookup was never made for animal a, or it kept the animal
NotRefused(a) == a \notin idsOfBuckets(buckets) \ animalsById

\* the animals owning records of feed (a), none of which has a parseable scheduled-for
UnknownOnly ==
  {a \in {v.animalId : v \in SeqToSet(buckets.unknown)} \ {NoId} :
     \A v \in SeqToSet(buckets.overdue \o buckets.needsAttention \o buckets.upcoming
                         \o buckets.current) : v.animalId /= a}

\* C19: a dog whose records in the org-wide feed all have unknown window
\* status is still materialized, unless the lookup refused it, with those
\* records in its unknown bucket, and once posted its rabies rollup has the
\* dateless record as next-due.
C19_UnknownOnlyDogMaterialized ==
  (pc \in {"enrich", "post", "done"}) =>
    \A a \in UnknownOnly :
      NotRefused(a) =>
        /\ a \in DOMAIN dogsById
        /\ dogsById[a].unknown /= <<>>
        /\ \A i \in 1..Len(posted) :
             posted[i].animalId = a =>
               posted[i].core["rabies"].soonest \in SeqToSet(allOf(dogsById[a]))

\* how urgent a window status is: overdue first
Rank(status) ==
  CASE status = "overdue" -> 1
    [] status = "needsAttention" -> 2
    [] status = "upcoming" -> 3
    [] status = "current" -> 4
    [] OTHER -> 5

\* C20: for each core family the display status is the most urgent window
\* status (overdue, needsAttention, upcoming, current) found among the dog's
\* dated bucketed records of the family.
C20_MostUrgentShown ==
  \A i \in 1..Len(posted) : \A key \in CoreKeys :
    LET dog == dogsById[posted[i].animalId]
        dated == {v \in SeqToSet(forType(allOf(dog), key)) : v.scheduledFor.k = "date"}
        shown == posted[i].core[key].statusKey
    IN  dated /= {} =>
          /\ \E v \in dated : v.status = shown
          /\ \A v \in dated : Rank(shown) <= Rank(v.status)

----------------------------------------------------------------------------
(* Claims on malformed feeds (SpecMalformed) *)

\* how many records of raw feed q have no id
CountNoId(q) == Cardinality({i \in 1..Len(q) : q[i].id = NoId})

\* no two records without id of raw feed q are alike
NoIdAllDiffer(q) ==
  \A i, j \in 1..Len(q) : (i < j /\ q[i].id = NoId /\ q[j].id = NoId) => q[i] /= q[j]

\* C17: a raw record with no identifier takes no part in deduplication:
\* the records without id of feed (b), no two of them alike, are either all
\* kept beside those of feed (a) or all skipped, and every identifier the
\* feeds give is still held, so no record is discarded as the duplicate of
\* a record without id.
C17_NoIdNeverDeduplicated ==
  \A d \in Enriched :
    LET inA == Len(HeldUnder(seedDogs[d], NoId))
        inB == CountNoId(fetchedB[d])
        held == Len(HeldUnder(dogsById[d], NoId))
    IN  NoIdAllDiffer(fetchedB[d]) =>
          /\ held \in {inA + inB, inA}
          /\ \A id \in (FeedAIds(d) \cup FeedBIds(d)) \ {NoId} :
               HeldUnder(dogsById[d], id) /= <<>>

\* C18: for any feed that is a sequence, bucketing and reconciliation never
\* raise whatever its elements are, and once the feed is bucketed every
\* element of it that is a record has been classified.
C18_MalformedDataNeverRaises ==
  /\ pc /= "raised"
  /\ (pc \notin {"fetchAll", "bucket"}) =>
       Len(allOf(buckets)) = Len(SelectSeq(scheduledVaccines, LAMBDA v : v /= NullElement))

----------------------------------------------------------------------------
(* Claims on doses already given (SpecHistory) *)

\* v.completed_at is a timestamp: the dose was given
hasCompletedAt(v) == v.completed_at.k \notin {"absent", "empty"}

\* the canonical records of the history's doses still to be given
PendingDoses ==
  {normalize(v, clock) :
     v \in {w \in SeqToSet(allVaccines) : hasScheduledFor(w) /\ ~hasCompletedAt(w)}}

\* every timestamp of the history is missing or a number of seconds that Date holds
WellDated(history) ==
  \A v \in SeqToSet(history) :
    v.scheduled_for.k \in {"absent", "num"} /\ v.completed_at.k \in {"absent", "num"}

\* C21: a dose already given (a record with a completed-at timestamp) is
\* never selected as a family's next-due record: in a history whose
\* timestamps all parse, the next-due record is always a dose still to be
\* given, and a family displayed as overdue has an overdue dose still to be
\* given.
C21_CompletedNeverNextDue ==
  (posted /= <<>> /\ WellDated(allVaccines)) =>
    \A key \in CoreKeys :
      LET r == LastPayload.core[key]
      IN  /\ r.soonest /= NoRecord => r.soonest \in PendingDoses
          /\ r.statusKey = "overdue" => \E v \in PendingDoses : v.status = "overdue"

----------------------------------------------------------------------------
(* Claims on the owner of the merged records (SpecMalformed) *)

\* C22: after the per-animal merge every record held in a dog's buckets has
\* an owning-animal id equal to that dog's id, whatever the per-animal feed
\* returned.
C22_HeldRecordsAreTheDogs ==
  \A d \in Enriched : \A v \in SeqToSet(allOf(dogsById[d])) : v.animalId = d

----------------------------------------------------------------------------
(* Claims on the order of the two loops of main (SpecTwoDogs) *)

\* every dog of the run has had its per-animal feed merged
AllMerged == DOMAIN fetchedB = DOMAIN dogsById

\* C23: no Slack message is posted for any dog before the per-animal merge
\* is over for every dog, so a run that a failed per-animal fetch has ended
\* has posted nothing.
C23_NoPostBeforeAllMerged ==
  /\ posted /= <<>> => AllMerged
  /\ (pc = "failed" /\ ~AllMerged) => posted = <<>>

\* the per-animal fetch of the second dog failed after the first dog was
\* enriched with a record of its own, and the run ended with nothing posted
C23_Witness ==
  /\ pc = "failed"
  /\ DOMAIN dogsById = TwoAnimals
  /\ DOMAIN fetchedB = {1}
  /\ fetchedB[1] /= <<>>
  /\ posted = <<>>

----------------------------------------------------------------------------
(* Claims on the pagination of fetchAllScheduledVaccines (SpecPager) *)

\* the records of a response: those of its list, none when it has no list
RecordsOf(body) == IF batchIsArray(body) THEN batchOf(body) ELSE <<>>

\* the page is empty, shorter than limit records, or marked has_more = false
StopsAt(body) ==
  \/ Len(RecordsOf(body)) = 0
  \/ Len(RecordsOf(body)) < limit
  \/ body.has_more = "false"

RECURSIVE Concat(_)
\* the records of a sequence of responses, one page after the other
Concat(bodies) ==
  IF bodies = <<>> THEN <<>> ELSE RecordsOf(Head(bodies)) \o Concat(Tail(bodies))

\* the responses handled so far
Handled == IF pc = "handle" THEN SubSeq(received, 1, Len(received) - 1) ELSE received

PagesInOrder ==
  /\ \A i \in 1..Len(requested) : requested[i] = (i - 1) * limit
  /\ \A i \in 1..Len(received) :
       StopsAt(received[i]) => (i = Len(received) /\ Len(requested) = i)
  /\ pc = "returned" => (received /= <<>> /\ StopsAt(received[Len(received)]))
  /\ pc \in {"await", "threw"} => Len(requested) = Len(received) + 1
  /\ all = Concat(Handled)

\* C24: fetchAllScheduledVaccines requests the pages at offsets 0, 200, 400,
\* ... in order, sends no request after the first page that is empty,
\* shorter than 200 records or marked has_more = false, returns the
\* concatenation of the pages received up to and including that page, and
\* returns whenever such a page has arrived.
C24_PagesUntilLastPage ==
  /\ []PagesInOrder
  /\ (pc = "handle" /\ StopsAt(json)) ~> (pc = "returned")

\* the call returned after three requests, the third page holding one record
C24_Witness ==
  /\ pc = "returned"
  /\ requested = <<0, limit, 2 * limit>>
  /\ Len(RecordsOf(received[3])) = 1
  /\ Len(all) = 2 * limit + 1


====
